---- MODULE Spec2Model ----
(***************************************************************************)
(* L+D Turkey Labeler: the Weight Source (ScaleInterface), its background  *)
(* sampling threads, and the orchestrator (App) that redispatches scale    *)
(* triggers onto the Tk event queue and runs the print cycle.              *)
(*                                                                         *)
(* The repository holds three builds of the program: src/ver.py ("ver"),   *)
(* src/Ver.py ("Ver") and src/LD_Turkey_Labeler.py ("LD").  The variable   *)
(* build says which one runs; it never changes.                            *)
(*                                                                         *)
(* Time is counted in tenths of a second and kept as clocks: an age is the *)
(* time elapsed since an instant the program sampled with time.time(), a   *)
(* timer is the time left of a sleep, a join timeout or a read timeout.    *)
(* Ages saturate at AgeCap, beyond every value the program compares them   *)
(* with.  A timed wait never ends early and may end late; the steps        *)
(* between two blocking calls take no time.                                *)
(***************************************************************************)
EXTENDS Integers, Sequences, FiniteSets, TLC

\* ---------------------------------------------------------------- bounds
MaxThreads == 2      \* sampling threads ever started
MaxInst == 3         \* ScaleInterface objects ever constructed
MaxQueue == 1        \* jobs waiting in the Tk event queue; root.after raises when full
AgeCap == 15         \* ages saturate here

\* ------------------------------------------------------ program constants
DEBOUNCE == 12       \* 1.2 s
SIM_SLEEP == 50      \* time.sleep(5)
JOIN_TIMEOUT == 5    \* join(timeout=0.5)
READ_TIMEOUT == 10   \* serial.Serial(..., timeout=1)

Builds == {"ver", "Ver", "LD"}
Ports == {"Simulate", "COM3"}
Weights == {500}                       \* thousandths of a pound, in [0.5, 8.0]
Products == {"", "12345", "99999"}     \* combobox text: empty, in the DB, not in the DB
Templates == {"", "label.prn", "default_2x2.json"}
Deltas == {25}                         \* the clock's steps
FineDeltas == {1, 10}                  \* and its steps where tenths matter
Devices == {"ok", "open_fails", "read_raises", "no_number"}

VARIABLES
    build,        \* which of the three scripts runs
    serial,       \* TRUE iff "import serial" succeeded
    scale,        \* App.scale: the index of the current ScaleInterface
    ninst,        \* ScaleInterface objects constructed so far
    inst,         \* the objects' fields; age = time.time() - _last_trigger
    nthr,         \* threads started so far
    thr,          \* the threads
    orch,         \* what the orchestrator thread is doing
    queue,        \* root.after(0, job): jobs waiting, each the weight it closed over
    scale_port,   \* the configured scale port (settings / StringVar)
    weight_var, status, product, template_var,     \* UI-owned state
    accAge,       \* age of the time.time() of the last _trigger that called on_print
    stops,        \* stop() calls returned in a row on the current object
    acc,          \* the last step: who took it and what it did
    lab           \* the label on the bench: the inputs and the result of the last
                  \* print cycle or label computation

vars == <<build, serial, scale, ninst, inst, nthr, thr, orch, queue,
          scale_port, weight_var, status, product, template_var,
          accAge, stops, acc, lab>>

\* what no step of the scale, the threads or the listening changes
fixed == <<build, serial, lab>>
ui == <<weight_var, status, product, template_var>>

InstIds == 1..MaxInst
ThreadIds == 1..MaxThreads

Min(a, b) == IF a < b THEN a ELSE b
Max(a, b) == IF a > b THEN a ELSE b
Older(a, d) == Min(AgeCap, a + d)
Less(r, d) == Max(0, r - d)

NoLab == [op |-> "none"]

NoCycle == [stage |-> "none", rfail |-> FALSE, tfail |-> FALSE, sent |-> FALSE,
            pdf |-> FALSE, status |-> "-"]

\* The record of a step.  who: "orch", "sampler" or "env"; op: the operation;
\* wr: the fields of the ScaleInterface it wrote; ui: whether it read or wrote
\* UI-owned state; cb: calls of on_print; enq: jobs put on the event queue;
\* failed: whether root.after raised; gap, ok: for _trigger's test, the time since
\* the last call of on_print and whether the sample passed; opened: the port passed
\* to serial.Serial by the scale code; res: the outcome of read_once; cyc: the
\* print cycle that ended.
Acc(who, op, wr) ==
    [who |-> who, op |-> op, wr |-> wr, ui |-> FALSE, cb |-> 0, enq |-> 0,
     failed |-> FALSE, gap |-> 0, ok |-> FALSE, opened |-> "-", res |-> "-",
     dev |-> "-", cyc |-> NoCycle]

\* ------------------------------------------------------- ScaleInterface
\* self.simulate as __init__ and start() compute it
Simulate(b, ser, port) ==
    IF b = "LD" THEN port = "Simulate" ELSE (port = "Simulate") \/ ~ser

NoInst == [port |-> "Simulate", simulate |-> TRUE, running |-> FALSE,
           thread |-> 0, age |-> AgeCap]

\* ScaleInterface.__init__: _last_trigger = 0.0 lies the whole epoch back
NewInst(port) ==
    [port |-> port, simulate |-> Simulate(build, serial, port), running |-> FALSE,
     thread |-> 0, age |-> AgeCap]

NoThread == [pc |-> "none", inst |-> 0, sim |-> TRUE, w |-> 0, timer |-> 0]

\* threading.Thread(target=self._simulate_loop or self._read_loop, daemon=True)
NewThread(i, sim) ==
    [pc |-> IF sim THEN "loop_test" ELSE "open", inst |-> i, sim |-> sim, w |-> 0,
     timer |-> 0]

Alive(t) == t \in ThreadIds /\ thr[t].pc \notin {"none", "dead"}
AliveOf(i) == {t \in ThreadIds : Alive(t) /\ thr[t].inst = i}

OrchIdle == [pc |-> "idle", left |-> 0, cont |-> "none"]

InitCommon ==
    /\ scale = 1
    /\ ninst = 1
    /\ inst = [i \in InstIds |-> IF i = 1 THEN NewInst(scale_port) ELSE NoInst]
    /\ nthr = 0
    /\ thr = [t \in ThreadIds |-> NoThread]
    /\ orch = OrchIdle
    /\ queue = <<>>
    /\ weight_var = 0
    /\ status = "Idle"
    /\ accAge = AgeCap
    /\ stops = 0
    /\ acc = Acc("env", "init", {})
    /\ lab = NoLab

\* App.__init__: the settings name the scale port and the last template; no product
\* is chosen yet
Init ==
    /\ build \in Builds
    /\ serial \in BOOLEAN
    /\ scale_port = "Simulate"
    /\ product = ""
    /\ template_var = "default_2x2.json"
    /\ InitCommon

\* start(): the body after "if self._running: return", on object i of I
DoStart(I, i) ==
    LET t == nthr + 1
        sim == Simulate(build, serial, I[i].port)
    IN  /\ nthr < MaxThreads
        /\ inst' = [I EXCEPT ![i].running = TRUE, ![i].simulate = sim, ![i].thread = t]
        /\ thr' = [thr EXCEPT ![t] = NewThread(i, sim)]
        /\ nthr' = t

\* stop(), up to the join: self._running = False; if self._thread: join(0.5)
StopBegin(cont) ==
    /\ orch.pc = "idle"
    /\ inst' = [inst EXCEPT ![scale].running = FALSE]
    /\ orch' = IF inst[scale].thread # 0
               THEN [pc |-> "join", left |-> JOIN_TIMEOUT, cont |-> cont]
               ELSE [pc |-> "nojoin", left |-> 0, cont |-> cont]
    /\ acc' = Acc("orch", "stop", {"running"})
    /\ UNCHANGED <<fixed, scale, ninst, nthr, thr, queue, scale_port, ui, accAge, stops>>

\* join(timeout=0.5) returns when the thread has ended or the timeout has passed
JoinOver ==
    \/ orch.pc = "nojoin"
    \/ /\ orch.pc = "join"
       /\ \/ ~Alive(inst[scale].thread)
          \/ orch.left = 0

\* stop() returns: self._thread = None.  toggle_listen and stop_listen then set the
\* status; start_listen goes on to build a new ScaleInterface.
StopEnd ==
    /\ JoinOver
    /\ inst' = [inst EXCEPT ![scale].thread = 0]
    /\ orch' = IF orch.cont = "start_listen"
               THEN [pc |-> "start_listen", left |-> 0, cont |-> "none"]
               ELSE OrchIdle
    /\ stops' = Min(2, stops + 1)
    /\ status' = IF orch.cont = "toggle" THEN "Idle" ELSE status
    /\ acc' = [Acc("orch", "stop", IF orch.pc = "join" THEN {"thread"} ELSE {})
                 EXCEPT !.ui = (orch.cont = "toggle")]
    /\ UNCHANGED <<fixed, scale, ninst, nthr, thr, queue, scale_port,
                   weight_var, product, template_var, accAge>>

\* ------------------------------------------------------ the orchestrator
\* App.toggle_listen when the scale is not running.  ver.py and Ver.py copy the
\* configured port into the one ScaleInterface and start it (Ver.py also recomputes
\* simulate, as start() does again); LD_Turkey_Labeler.py goes through start_listen.
ToggleStart ==
    /\ orch.pc = "idle"
    /\ ~inst[scale].running
    /\ build \in {"ver", "Ver"}
    /\ DoStart([inst EXCEPT ![scale].port = scale_port], scale)
    /\ stops' = 0
    /\ status' = "Listening"
    /\ acc' = [Acc("orch", "toggle_listen", {"running", "thread"}) EXCEPT !.ui = TRUE]
    /\ UNCHANGED <<fixed, scale, ninst, orch, queue, scale_port, weight_var, product,
                   template_var, accAge>>

\* App.toggle_listen when the scale is running: stop(), then the status
ToggleStop ==
    /\ inst[scale].running
    /\ StopBegin("toggle")

\* LD_Turkey_Labeler.py start_listen, first half: self.scale.stop()
StartListenBegin ==
    /\ build = "LD"
    /\ ~inst[scale].running
    /\ ninst < MaxInst
    /\ nthr < MaxThreads
    /\ StopBegin("start_listen")

\* start_listen, second half: a new ScaleInterface(port, baud), on_print, start()
StartListenEnd ==
    /\ orch.pc = "start_listen"
    /\ LET n == ninst + 1
       IN  /\ DoStart([inst EXCEPT ![n] = NewInst(scale_port)], n)
           /\ scale' = n
           /\ ninst' = n
    /\ orch' = OrchIdle
    /\ stops' = 0
    /\ status' = "Listening"
    /\ acc' = [Acc("orch", "start_listen", {"running", "thread"}) EXCEPT !.ui = TRUE]
    /\ UNCHANGED <<fixed, queue, scale_port, weight_var, product, template_var, accAge>>

\* The user picks another scale port.  In ver.py the Options window saves it and
\* apply_settings copies it into the ScaleInterface; in Ver.py and
\* LD_Turkey_Labeler.py it is the port combobox, read when it is next needed.
ChangePort ==
    /\ orch.pc = "idle"
    /\ \E p \in Ports \ {scale_port} :
         /\ scale_port' = p
         /\ inst' = IF build = "ver" THEN [inst EXCEPT ![scale].port = p] ELSE inst
    /\ acc' = [Acc("orch", "change_port", {}) EXCEPT !.ui = TRUE]
    /\ UNCHANGED <<fixed, scale, ninst, nthr, thr, orch, queue, ui, accAge, stops>>

\* The user picks a product or a template
Select ==
    /\ orch.pc = "idle"
    /\ \/ /\ \E p \in Products \ {product} : product' = p
          /\ UNCHANGED template_var
       \/ /\ \E tp \in Templates \ {template_var} : template_var' = tp
          /\ UNCHANGED product
    /\ acc' = [Acc("orch", "select", {}) EXCEPT !.ui = TRUE]
    /\ UNCHANGED <<fixed, scale, ninst, inst, nthr, thr, orch, queue, scale_port,
                   weight_var, status, accAge, stops>>

\* A faulty variant of read_once: a channel that cannot be opened raises to the
\* caller
ReadOnceOpenRaises(sim, ser, dev, w) ==
    IF sim THEN [out |-> "sim", value |-> w]
    ELSE IF ~ser \/ dev = "open_fails" THEN [out |-> "raised", value |-> 0]
    ELSE IF dev = "ok" THEN [out |-> "sample", value |-> w]
    ELSE [out |-> "zero", value |-> 0]

\* read_once: a synthesized value when simulate is set, RuntimeError without
\* pyserial, else one line from the device; 0.0 when that fails or holds no number
ReadOnce(sim, ser, dev, w) ==
    IF sim THEN [out |-> "sim", value |-> w]
    ELSE IF ~ser THEN [out |-> "raised", value |-> 0]
    ELSE IF dev = "ok" THEN [out |-> "sample", value |-> w]
    ELSE [out |-> "zero", value |-> 0]

\* A faulty variant of manual_read: the sample read goes through the debounce and
\* restarts its window
ManualReadStamps ==
    /\ orch.pc = "idle"
    /\ \E dev \in Devices, w \in Weights :
         LET I == IF build = "LD" THEN inst ELSE [inst EXCEPT ![scale].port = scale_port]
             r == ReadOnce(I[scale].simulate, serial, dev, w)
         IN  /\ inst' = [I EXCEPT ![scale].age = 0]
             /\ weight_var' = IF r.out = "raised" THEN weight_var ELSE r.value
             /\ acc' = [Acc("orch", "read_once", IF build = "LD" THEN {} ELSE {"port"})
                          EXCEPT !.ui = TRUE, !.res = r.out, !.dev = dev,
                                 !.opened = IF r.out \in {"sample", "zero"}
                                            THEN I[scale].port ELSE "-"]
    /\ UNCHANGED <<fixed, scale, ninst, nthr, thr, orch, queue, scale_port,
                   status, product, template_var, accAge, stops>>

\* App.manual_read: ver.py and Ver.py first copy the configured port into the
\* ScaleInterface; a raised exception ends in the error dialog
ManualRead ==
    /\ orch.pc = "idle"
    /\ \E dev \in Devices, w \in Weights :
         LET I == IF build = "LD" THEN inst ELSE [inst EXCEPT ![scale].port = scale_port]
             r == ReadOnce(I[scale].simulate, serial, dev, w)
         IN  /\ inst' = I
             /\ weight_var' = IF r.out = "raised" THEN weight_var ELSE r.value
             /\ acc' = [Acc("orch", "read_once", IF build = "LD" THEN {} ELSE {"port"})
                          EXCEPT !.ui = TRUE, !.res = r.out, !.dev = dev,
                                 !.opened = IF r.out \in {"sample", "zero"}
                                            THEN I[scale].port ELSE "-"]
    /\ UNCHANGED <<fixed, scale, ninst, nthr, thr, orch, queue, scale_port,
                   status, product, template_var, accAge, stops>>

\* ------------------------------------------------------- the print cycle
Cyc(stage, rfail, tfail, sent, pdf, st) ==
    [stage |-> stage, rfail |-> rfail, tfail |-> tfail, sent |-> sent, pdf |-> pdf,
     status |-> st]

Envs == [load : BOOLEAN, pdf : BOOLEAN, send : BOOLEAN]

\* ver.py App.print_action: where the cycle ends, whether rendering or transport
\* failed, whether a payload was sent and whether the PDF was written
PrintAction(prod, tpl, ser, env) ==
    IF prod # "12345" THEN Cyc("build", FALSE, FALSE, FALSE, FALSE, "-")
    ELSE IF tpl = "" THEN Cyc("template", FALSE, FALSE, FALSE, FALSE, "-")
    ELSE IF tpl = "label.prn"
    THEN IF ~env.load THEN Cyc("render", TRUE, FALSE, FALSE, FALSE, "-")
         ELSE IF ~ser \/ ~env.send THEN Cyc("transport", FALSE, TRUE, FALSE, FALSE, "-")
         ELSE Cyc("done", FALSE, FALSE, TRUE, FALSE, "-")
    ELSE IF ~env.load THEN Cyc("template", FALSE, FALSE, FALSE, FALSE, "-")
         ELSE IF ~env.pdf THEN Cyc("render", TRUE, FALSE, FALSE, FALSE, "-")
         ELSE IF ~ser \/ ~env.send THEN Cyc("transport", FALSE, TRUE, FALSE, TRUE, "-")
         ELSE Cyc("done", FALSE, FALSE, TRUE, TRUE, "-")

\* ver.py handle_scale_print.job: the status before and after print_action
JobVer(prod, tpl, ser, env) ==
    [PrintAction(prod, tpl, ser, env) EXCEPT !.status = "Idle"]

\* Ver.py handle_scale_print.do_auto
JobVerCap(prod, tpl, ser, env) ==
    LET has == tpl = "default_2x2.json"
        rf == has /\ ~env.pdf
        pdf == has /\ env.pdf
    IN  IF prod # "12345"
        THEN Cyc("build", FALSE, FALSE, FALSE, FALSE, "Auto skipped (no product)")
        ELSE IF ~ser
        THEN Cyc("transport", rf, TRUE, FALSE, pdf, "Auto skipped (pyserial missing)")
        ELSE IF env.send THEN Cyc("done", rf, FALSE, TRUE, pdf, "Auto-sent")
        ELSE Cyc("transport", rf, TRUE, FALSE, pdf, "Auto send failed")

\* LD_Turkey_Labeler.py handle_scale_print.do_auto
JobLD(prod, tpl, ser, env) ==
    IF prod # "12345"
    THEN Cyc("build", FALSE, FALSE, FALSE, FALSE, "Auto skipped (no product)")
    ELSE IF tpl # "default_2x2.json" \/ ~env.load
    THEN Cyc("template", FALSE, FALSE, FALSE, FALSE, "Auto skipped (no template)")
    ELSE IF env.pdf THEN Cyc("done", FALSE, FALSE, FALSE, TRUE, "Auto-saved")
    ELSE Cyc("render", TRUE, FALSE, FALSE, FALSE, "Auto failed")

Job(b, prod, tpl, ser, env) ==
    IF b = "ver" THEN JobVer(prod, tpl, ser, env)
    ELSE IF b = "Ver" THEN JobVerCap(prod, tpl, ser, env)
    ELSE JobLD(prod, tpl, ser, env)

\* The Tk main loop runs the job that handle_scale_print queued
RunJob ==
    /\ orch.pc = "idle"
    /\ queue # <<>>
    /\ \E env \in Envs :
         LET c == Job(build, product, template_var, serial, env)
         IN  /\ status' = c.status
             /\ acc' = [Acc("orch", "job", {}) EXCEPT !.ui = TRUE, !.cyc = c]
    /\ weight_var' = Head(queue)
    /\ queue' = Tail(queue)
    /\ UNCHANGED <<fixed, scale, ninst, inst, nthr, thr, orch, scale_port,
                   product, template_var, accAge, stops>>

\* --------------------------------------------------- the sampling threads
Upd(t, r) == [thr EXCEPT ![t] = r]

\* A faulty variant of the step below: a sampling thread that cannot open its
\* channel clears the running flag itself
ThreadOpenClears(t) ==
    /\ thr[t].pc = "open"
    /\ \E ok \in BOOLEAN :
         /\ thr' = Upd(t, [thr[t] EXCEPT !.pc = IF ok /\ serial THEN "loop_test" ELSE "dead"])
         /\ inst' = IF ok /\ serial THEN inst
                    ELSE [inst EXCEPT ![thr[t].inst].running = FALSE]
    /\ acc' = [Acc("sampler", "open", {}) EXCEPT !.opened = inst[thr[t].inst].port]
    /\ UNCHANGED <<fixed, scale, ninst, nthr, orch, queue, scale_port, ui, accAge, stops>>

\* _read_loop up to its loop: without pyserial the thread ends at once, otherwise
\* it opens serial.Serial(self.port, self.baud, timeout=1)
ThreadOpen(t) ==
    /\ thr[t].pc = "open"
    /\ IF ~serial
       THEN /\ thr' = Upd(t, [thr[t] EXCEPT !.pc = "dead"])
            /\ acc' = Acc("sampler", "open", {})
       ELSE /\ \E ok \in BOOLEAN :
                 thr' = Upd(t, [thr[t] EXCEPT !.pc = IF ok THEN "loop_test" ELSE "dead"])
            /\ acc' = [Acc("sampler", "open", {}) EXCEPT !.opened = inst[thr[t].inst].port]
    /\ UNCHANGED <<fixed, scale, ninst, inst, nthr, orch, queue, scale_port, ui,
                   accAge, stops>>

\* "while self._running:" and, when it holds, the start of the blocking call
ThreadLoopTest(t) ==
    /\ thr[t].pc = "loop_test"
    /\ thr' = Upd(t, IF ~inst[thr[t].inst].running
                     THEN [thr[t] EXCEPT !.pc = "dead"]
                     ELSE IF thr[t].sim
                     THEN [thr[t] EXCEPT !.pc = "sleep", !.timer = SIM_SLEEP]
                     ELSE [thr[t] EXCEPT !.pc = "readline", !.timer = READ_TIMEOUT])
    /\ acc' = Acc("sampler", "loop_test", {})
    /\ UNCHANGED <<fixed, scale, ninst, inst, nthr, orch, queue, scale_port, ui,
                   accAge, stops>>

\* A faulty variant of the test below: a sample exactly 1.2 s late is dropped too
DebouncedInclusive(age) == age <= DEBOUNCE

\* _trigger's test: "now - self._last_trigger < 1.2" with now = time.time()
Debounced(age) == age < DEBOUNCE

\* _trigger, first half: now = time.time(); if now - self._last_trigger < 1.2: return
TrigCheck(t, w) ==
    LET drop == Debounced(inst[thr[t].inst].age)
    IN  /\ thr' = Upd(t, IF drop
                         THEN [thr[t] EXCEPT !.pc = "loop_test", !.timer = 0]
                         ELSE [thr[t] EXCEPT !.pc = "accept", !.timer = 0, !.w = w])
        /\ acc' = [Acc("sampler", "check", {}) EXCEPT !.gap = accAge, !.ok = ~drop]

\* time.sleep(5) is over: round(random.uniform(0.5, 8.0), 3), then _trigger
ThreadWake(t) ==
    /\ thr[t].pc = "sleep"
    /\ thr[t].timer = 0
    /\ \E w \in Weights : TrigCheck(t, w)
    /\ UNCHANGED <<fixed, scale, ninst, inst, nthr, orch, queue, scale_port, ui,
                   accAge, stops>>

\* What a failed ser.readline() does to the thread: ver.py and Ver.py leave the loop
\* through the outer except, LD_Turkey_Labeler.py catches it inside and continues.
ReadRaised(b) == IF b = "LD" THEN "loop_test" ELSE "dead"

\* ser.readline() returns a line with a decimal number (then _trigger), a line
\* without one, nothing within the timeout, or raises
ThreadReadline(t) ==
    /\ thr[t].pc = "readline"
    /\ \/ \E w \in Weights : TrigCheck(t, w)
       \/ /\ thr' = Upd(t, [thr[t] EXCEPT !.pc = "loop_test", !.timer = 0])
          /\ acc' = Acc("sampler", "readline", {})
       \/ /\ thr[t].timer = 0
          /\ thr' = Upd(t, [thr[t] EXCEPT !.pc = "loop_test"])
          /\ acc' = Acc("sampler", "readline", {})
       \/ /\ thr' = Upd(t, [thr[t] EXCEPT !.pc = ReadRaised(build), !.timer = 0])
          /\ acc' = Acc("sampler", "readline", {})
    /\ UNCHANGED <<fixed, scale, ninst, inst, nthr, orch, queue, scale_port, ui,
                   accAge, stops>>

\* App.handle_scale_print on the sampling thread: root.after(0, job) inside
\* try/except.  The event queue after it, and whether an exception left it.
HandleScalePrint(q, w, afterOk) ==
    [queue |-> IF afterOk THEN Append(q, w) ELSE q, raised |-> FALSE]

\* A faulty variant of the step below: nothing catches what root.after raises, and
\* the exception ends the sampling thread
TrigAcceptUncaught(t) ==
    /\ thr[t].pc = "accept"
    /\ \E afterOk \in BOOLEAN :
         LET r == HandleScalePrint(queue, thr[t].w, afterOk)
         IN  /\ afterOk => Len(queue) < MaxQueue
             /\ queue' = r.queue
             /\ thr' = Upd(t, [thr[t] EXCEPT !.pc = IF afterOk THEN "loop_test" ELSE "dead",
                                            !.w = 0])
             /\ acc' = [Acc("sampler", "accept", {"last_trigger"})
                          EXCEPT !.cb = 1, !.enq = Len(r.queue) - Len(queue),
                                 !.failed = ~afterOk]
    /\ inst' = [inst EXCEPT ![thr[t].inst].age = 0]
    /\ accAge' = 0
    /\ UNCHANGED <<fixed, scale, ninst, nthr, orch, scale_port, ui, stops>>

\* A faulty variant of the step below: on_print sets the weight field and the
\* status on the sampling thread and queues nothing
TrigAcceptInline(t) ==
    /\ thr[t].pc = "accept"
    /\ weight_var' = thr[t].w
    /\ status' = "Auto printing"
    /\ acc' = [Acc("sampler", "accept", {"last_trigger"}) EXCEPT !.cb = 1]
    /\ thr' = Upd(t, [thr[t] EXCEPT !.pc = "loop_test", !.w = 0])
    /\ inst' = [inst EXCEPT ![thr[t].inst].age = 0]
    /\ accAge' = 0
    /\ UNCHANGED <<fixed, scale, ninst, nthr, orch, queue, scale_port, product,
                   template_var, stops>>

\* _trigger, second half: self._last_trigger = now; on_print(w) inside try/except
TrigAccept(t) ==
    /\ thr[t].pc = "accept"
    /\ \E afterOk \in BOOLEAN :
         LET r == HandleScalePrint(queue, thr[t].w, afterOk)
         IN  /\ afterOk => Len(queue) < MaxQueue
             /\ queue' = r.queue
             /\ acc' = [Acc("sampler", "accept", {"last_trigger"})
                          EXCEPT !.cb = 1, !.enq = Len(r.queue) - Len(queue),
                                 !.failed = ~afterOk]
    /\ thr' = Upd(t, [thr[t] EXCEPT !.pc = "loop_test", !.w = 0])
    /\ inst' = [inst EXCEPT ![thr[t].inst].age = 0]
    /\ accAge' = 0
    /\ UNCHANGED <<fixed, scale, ninst, nthr, orch, scale_port, ui, stops>>

ThreadStep(t) ==
    \/ ThreadOpen(t)
    \/ ThreadLoopTest(t)
    \/ ThreadWake(t)
    \/ ThreadReadline(t)
    \/ TrigAccept(t)

\* ------------------------------------------------------------- the clock
\* Time passes only while every thread is in a blocking call or has ended
Blocked ==
    /\ \A t \in ThreadIds : thr[t].pc \notin {"loop_test", "accept"}
    /\ orch.pc \notin {"nojoin", "start_listen"}

Advance(d) ==
    /\ Blocked
    /\ inst' = [i \in InstIds |-> [inst[i] EXCEPT !.age = Older(@, d)]]
    /\ thr' = [t \in ThreadIds |-> [thr[t] EXCEPT !.timer = Less(@, d)]]
    /\ orch' = [orch EXCEPT !.left = Less(@, d)]
    /\ accAge' = Older(accAge, d)
    /\ acc' = Acc("env", "tick", {})
    /\ UNCHANGED <<fixed, scale, ninst, nthr, queue, scale_port, ui, stops>>

Tick == \E d \in Deltas : Advance(d)

TickFine == \E d \in FineDeltas : Advance(d)

\* ------------------------------------------------------ specifications
Next ==
    \/ ToggleStart
    \/ ToggleStop
    \/ StopEnd
    \/ StartListenBegin
    \/ StartListenEnd
    \/ ChangePort
    \/ ManualRead
    \/ RunJob
    \/ \E t \in ThreadIds : ThreadStep(t)
    \/ Tick

Spec == Init /\ [][Next]_vars

\* The automatic flow: the user has chosen the scale port before listening and
\* changes the product and the template while it runs
InitAuto ==
    /\ build \in Builds
    /\ serial \in BOOLEAN
    /\ scale_port \in Ports
    /\ product = ""
    /\ template_var = "default_2x2.json"
    /\ InitCommon

NextAuto ==
    \/ ToggleStart
    \/ ToggleStop
    \/ StopEnd
    \/ StartListenBegin
    \/ StartListenEnd
    \/ Select
    \/ RunJob
    \/ \E t \in ThreadIds : ThreadStep(t)
    \/ Tick

SpecAuto == InitAuto /\ [][NextAuto]_vars

\* The debounce, in tenths of a second: a real scale on COM3 with pyserial present
InitFine ==
    /\ build \in Builds
    /\ serial = TRUE
    /\ scale_port = "COM3"
    /\ product = ""
    /\ template_var = "default_2x2.json"
    /\ InitCommon

NextFine ==
    \/ ToggleStart
    \/ ToggleStop
    \/ StopEnd
    \/ StartListenBegin
    \/ StartListenEnd
    \/ RunJob
    \/ \E t \in ThreadIds : ThreadOpen(t)
    \/ \E t \in ThreadIds : ThreadLoopTest(t)
    \/ \E t \in ThreadIds : ThreadReadline(t)
    \/ \E t \in ThreadIds : TrigAccept(t)
    \/ TickFine

SpecFine == InitFine /\ [][NextFine]_vars

\* ------------------------------------------------------ the print cycle
\* What a print cycle does, in order, as pairs <<kind, detail>>:
\*   "content"       generate_content returned a label content
\*   "render"        a renderer returned its output ("prn", "pdf", "datamax", "dpl")
\*   "render_raised" a renderer raised or returned None
\*   "file"          the PDF file was written
\*   "open", "write", "close"         serial.Serial on the printer port
\*   "open_raised", "write_raised"    and its failures
\*   "err", "info"   messagebox.showerror, messagebox.showinfo
\*   "status"        status.set
\* What the environment decides: whether the template file loads, whether
\* generate_label_pdf succeeds, whether the printer port opens and takes the write.
PEnvs == [load : BOOLEAN, pdf : BOOLEAN, open : BOOLEAN, write : BOOLEAN]

\* A faulty variant of the send below: the port stays open when the write raises
SendNoRelease(payload, env) ==
    IF ~env.open THEN << <<"open_raised", payload>> >>
    ELSE IF ~env.write
    THEN << <<"open", payload>>, <<"write_raised", payload>> >>
    ELSE << <<"open", payload>>, <<"write", payload>>, <<"close", payload>> >>

\* "with serial.Serial(port, baud, timeout=2) as ser: ser.write(data)": the with
\* statement closes the port when the write raises
Send(payload, env) ==
    IF ~env.open THEN << <<"open_raised", payload>> >>
    ELSE IF ~env.write
    THEN << <<"open", payload>>, <<"write_raised", payload>>, <<"close", payload>> >>
    ELSE << <<"open", payload>>, <<"write", payload>>, <<"close", payload>> >>

SendRaised(env) == ~env.open \/ ~env.write

\* parse_selected_product / parse_product inside generate_content: the dialog and
\* None for an empty combobox or a code without a row
BuildRun(prod) ==
    IF prod = "" THEN << <<"err", "Select product">> >>
    ELSE IF prod # "12345" THEN << <<"err", "Product not found">> >>
    ELSE << <<"content", prod>> >>

\* A faulty variant of the test below: the cycle goes on without a content
HasContentAlways(prod) == TRUE

\* "if not content: return"
HasContent(prod) == prod = "12345"

\* ver.py print_action from "try: ... send_prn_to_printer" on: the payload goes out
\* once, the outcome is shown in a dialog
SendRunVer(payload, ser, env) ==
    IF ~ser THEN << <<"err", "Printer Error">> >>
    ELSE Send(payload, env) \o
         (IF SendRaised(env) THEN << <<"err", "Printer Error">> >>
          ELSE << <<"info", "Printed">> >>)

\* ver.py App.print_action
PrintActionRun(prod, tpl, ser, env) ==
    IF ~HasContent(prod) THEN BuildRun(prod)
    ELSE BuildRun(prod) \o
         (IF tpl = "" THEN << <<"err", "No template selected">> >>
          ELSE IF tpl = "label.prn"
          THEN IF ~env.load THEN << <<"render_raised", "prn">>, <<"err", "Failed to load PRN">> >>
               ELSE << <<"render", "prn">> >> \o SendRunVer("prn", ser, env)
          ELSE IF ~env.load THEN << <<"err", "Failed loading template">> >>
          ELSE IF ~env.pdf THEN << <<"render_raised", "pdf">>, <<"err", "PDF Error">> >>
          ELSE << <<"render", "pdf">>, <<"file", "pdf">>, <<"render", "datamax">> >>
               \o SendRunVer("datamax", ser, env))

\* ver.py handle_scale_print.job
JobRunVer(prod, tpl, ser, env) ==
    << <<"status", "Auto printing from scale">> >> \o PrintActionRun(prod, tpl, ser, env)
       \o << <<"status", "Idle">> >>

\* Ver.py and LD_Turkey_Labeler.py keep the templates they loaded in a dictionary:
\* the JSON templates that loaded
Resolved(tpl, env) == tpl = "default_2x2.json" /\ env.load

\* Ver.py App.print_to_printer
PrintToPrinterRun(prod, tpl, ser, env) ==
    IF ~HasContent(prod) THEN BuildRun(prod)
    ELSE BuildRun(prod) \o
         (IF ~Resolved(tpl, env) THEN << >>
          ELSE IF env.pdf THEN << <<"render", "pdf">>, <<"file", "pdf">> >>
          ELSE << <<"render_raised", "pdf">>, <<"err", "PDF failed">> >>) \o
         (IF ~ser THEN << <<"err", "Printer Error">> >>
          ELSE << <<"render", "dpl">> >> \o Send("dpl", env) \o
               (IF SendRaised(env) THEN << <<"err", "Printer Error">> >>
                ELSE << <<"info", "Printer">> >>))

\* Ver.py handle_scale_print.do_auto
JobRunVerCap(prod, tpl, ser, env) ==
    IF ~HasContent(prod) THEN BuildRun(prod) \o << <<"status", "Auto skipped (no product)">> >>
    ELSE BuildRun(prod) \o
         (IF ~Resolved(tpl, env) THEN << >>
          ELSE IF env.pdf THEN << <<"render", "pdf">>, <<"file", "pdf">> >>
          ELSE << <<"render_raised", "pdf">>, <<"status", "Auto PDF failed">> >>) \o
         (IF ~ser THEN << <<"status", "Auto skipped (pyserial missing)">> >>
          ELSE << <<"render", "dpl">> >> \o Send("dpl", env) \o
               (IF SendRaised(env) THEN << <<"status", "Auto send failed">> >>
                ELSE << <<"status", "Auto-sent">> >>))

\* LD_Turkey_Labeler.py App.print_file: generate_label_pdf gets whatever
\* load_templates().get returned, None included, and raises on None
PrintFileRun(prod, tpl, ser, env) ==
    IF ~HasContent(prod) THEN BuildRun(prod)
    ELSE BuildRun(prod) \o
         (IF Resolved(tpl, env) /\ env.pdf
          THEN << <<"render", "pdf">>, <<"file", "pdf">>, <<"info", "Saved">> >>
          ELSE << <<"render_raised", "pdf">>, <<"err", "PDF failed">> >>)

\* LD_Turkey_Labeler.py handle_scale_print.do_auto
JobRunLD(prod, tpl, ser, env) ==
    IF ~HasContent(prod) THEN BuildRun(prod) \o << <<"status", "Auto skipped (no product)">> >>
    ELSE BuildRun(prod) \o
         (IF ~Resolved(tpl, env) THEN << <<"status", "Auto skipped (no template)">> >>
          ELSE IF env.pdf
          THEN << <<"render", "pdf">>, <<"file", "pdf">>, <<"status", "Auto-saved">> >>
          ELSE << <<"render_raised", "pdf">>, <<"status", "Auto failed">> >>)

\* The Print button of each build
ManualRun(b, prod, tpl, ser, env) ==
    IF b = "ver" THEN PrintActionRun(prod, tpl, ser, env)
    ELSE IF b = "Ver" THEN PrintToPrinterRun(prod, tpl, ser, env)
    ELSE PrintFileRun(prod, tpl, ser, env)

\* The job handle_scale_print queues in each build
AutoRun(b, prod, tpl, ser, env) ==
    IF b = "ver" THEN JobRunVer(prod, tpl, ser, env)
    ELSE IF b = "Ver" THEN JobRunVerCap(prod, tpl, ser, env)
    ELSE JobRunLD(prod, tpl, ser, env)

IsStatus(e) == e[1] = "status"

life == <<scale, ninst, inst, nthr, thr, orch, queue, scale_port, accAge, stops, acc>>

Bench(op, env, run) ==
    [op |-> op, prod |-> product, tpl |-> template_var, env |-> env, run |-> run]

\* The user presses Print
PrintManual ==
    /\ \E env \in PEnvs :
         lab' = Bench("manual", env, ManualRun(build, product, template_var, serial, env))
    /\ UNCHANGED <<build, serial, life, ui>>

\* The job of an accepted sample runs on the orchestrator
PrintAuto ==
    /\ \E env \in PEnvs, w \in Weights :
         /\ lab' = Bench("auto", env, AutoRun(build, product, template_var, serial, env))
         /\ weight_var' = w
         /\ status' = LET st == SelectSeq(lab'.run, IsStatus)
                       IN  IF st = << >> THEN status ELSE st[Len(st)][2]
    /\ UNCHANGED <<build, serial, life, product, template_var>>

\* The user picks a product or a template at the bench
SelectBench ==
    /\ \/ /\ \E p \in Products \ {product} : product' = p
          /\ UNCHANGED template_var
       \/ /\ \E tp \in Templates \ {template_var} : template_var' = tp
          /\ UNCHANGED product
    /\ UNCHANGED <<build, serial, life, lab, weight_var, status>>

InitPrint ==
    /\ build \in Builds
    /\ serial \in BOOLEAN
    /\ scale_port = "Simulate"
    /\ product \in Products
    /\ template_var \in Templates
    /\ InitCommon

NextPrint == PrintManual \/ PrintAuto \/ SelectBench

SpecPrint == InitPrint /\ [][NextPrint]_vars

\* ---------------------------------------------------- the label content
\* Text is a sequence of characters: the digits 0..9 and Minus for "-".
\* Weights are counted in thousandths of a pound, prices in cents per pound,
\* and a money amount in units of 0.00001 dollars, so that net * price is
\* exact.  The program computes in binary floating point; for weights of three
\* decimals and prices of two its rounding errors stay below 1e-11, far from the
\* 1e-9 that decides a rounding here.
Minus == 0 - 1
Grosses == {0, 40, 500, 5000, 7995}
Tares == {0, 50, 0 - 10}
Prices == {0, 1, 299, 20000, 0 - 299}
Seeds == {0, 42, 12345, 99999, 123456}
CentsSet == {0, 7, 1480, 99999, 100000}

RECURSIVE StrNat(_)
StrNat(n) == IF n < 10 THEN <<n>> ELSE Append(StrNat(n \div 10), n % 10)

\* str(n) of an integer
Str(n) == IF n < 0 THEN <<Minus>> \o StrNat(0 - n) ELSE StrNat(n)

Zeros(k) == [i \in 1..k |-> 0]

\* str.zfill(w): zeros on the left, after a sign, up to width w; a longer text is
\* returned as it is
Zfill(t, w) ==
    IF Len(t) >= w THEN t
    ELSE IF t # << >> /\ t[1] = Minus THEN <<Minus>> \o Zeros(w - Len(t)) \o Tail(t)
    ELSE Zeros(w - Len(t)) \o t

RECURSIVE SumAt(_, _)
SumAt(t, idx) ==
    IF idx = {} THEN 0
    ELSE LET i == CHOOSE j \in idx : TRUE IN t[i] + SumAt(t, idx \ {i})

\* A faulty variant of the check digit below: the weight 3 on the wrong positions
UpcCheckDigitSwapped(d) ==
    IF Len(d) # 11 \/ \E i \in 1..Len(d) : d[i] \notin 0..9
    THEN [raised |-> TRUE, digit |-> 0]
    ELSE LET s_odd == SumAt(d, {1, 3, 5, 7, 9, 11})
             s_even == SumAt(d, {2, 4, 6, 8, 10})
             total == s_odd + s_even * 3
         IN  [raised |-> FALSE, digit |-> (10 - (total % 10)) % 10]

\* upc_check_digit: ValueError unless the text has 11 characters, all digits
\* (int() raises on any other); positions are counted from 1 here
UpcCheckDigit(d) ==
    IF Len(d) # 11 \/ \E i \in 1..Len(d) : d[i] \notin 0..9
    THEN [raised |-> TRUE, digit |-> 0]
    ELSE LET s_odd == SumAt(d, {1, 3, 5, 7, 9, 11})
             s_even == SumAt(d, {2, 4, 6, 8, 10})
             total == s_odd * 3 + s_even
         IN  [raised |-> FALSE, digit |-> (10 - (total % 10)) % 10]

\* make_price_embedded_upc(plu5, price_cents)
MakePriceEmbeddedUpc(plu5, price_cents) ==
    LET p == Zfill(Str(plu5), 5)
        p5 == Zfill(Str(price_cents), 5)
        core == <<2>> \o p \o p5
        c == UpcCheckDigit(core)
    IN  IF c.raised THEN [raised |-> TRUE, code |-> << >>]
        ELSE [raised |-> FALSE, code |-> Append(core, c.digit)]

\* A faulty variant of the net weight below: no floor at zero
NetSigned(gross, tare) == gross - tare

\* max(0.0, weight - tare)
Net(gross, tare) == Max(0, gross - tare)

\* A faulty variant of the rounding below, without the added 1e-9: an exact half
\* cent goes to the even cent
RoundTotalEven(amount) ==
    LET q == amount \div 1000
        r == amount % 1000
    IN  (IF r < 500 THEN q ELSE IF r > 500 THEN q + 1
         ELSE IF q % 2 = 0 THEN q ELSE q + 1) * 1000

\* round(x, 2) of x = amount + 1e-9, amount in units of 0.00001: the nearest
\* cent; the added 1e-9 lifts an exact half cent above the tie
RoundTotal(amount) == ((amount + 500) \div 1000) * 1000

\* round(net * price_per_lb + 1e-9, 2)
Total(net, price) == RoundTotal(net * price)

\* int(round(total * 100)): round() to an integer rounds a tie to the even one
CentsOf(total) ==
    LET q == total \div 1000
        r == total % 1000
    IN  IF r < 500 THEN q
        ELSE IF r > 500 THEN q + 1
        ELSE IF q % 2 = 0 THEN q ELSE q + 1

\* generate_content for a product that was found
GenerateContent(gross, tare, price, seed) ==
    LET net == Net(gross, tare)
        total == Total(net, price)
        cents == CentsOf(total)
        upc == MakePriceEmbeddedUpc(seed, cents)
    IN  [raised |-> upc.raised, weight |-> net, total_price |-> total,
         cents |-> cents, upc |-> upc.code]

\* The scale's gross weight and the product's row reach generate_content
BuildContent ==
    /\ lab.op = "input"
    /\ lab' = [op |-> "content", gross |-> lab.gross, tare |-> lab.tare,
               price |-> lab.price, seed |-> lab.seed,
               out |-> GenerateContent(lab.gross, lab.tare, lab.price, lab.seed)]
    /\ UNCHANGED <<build, serial, life, ui>>

\* make_price_embedded_upc called with a seed and a cents value
CallMakeUpc ==
    /\ lab.op = "input"
    /\ \E cents \in CentsSet :
         lab' = [op |-> "upc", seed |-> lab.seed, cents |-> cents,
                 out |-> MakePriceEmbeddedUpc(lab.seed, cents)]
    /\ UNCHANGED <<build, serial, life, ui>>

InitLabel ==
    /\ build \in Builds
    /\ serial = TRUE
    /\ scale_port = "Simulate"
    /\ product = "12345"
    /\ template_var = "default_2x2.json"
    /\ scale = 1
    /\ ninst = 1
    /\ inst = [i \in InstIds |-> IF i = 1 THEN NewInst(scale_port) ELSE NoInst]
    /\ nthr = 0
    /\ thr = [t \in ThreadIds |-> NoThread]
    /\ orch = OrchIdle
    /\ queue = <<>>
    /\ weight_var = 0
    /\ status = "Idle"
    /\ accAge = AgeCap
    /\ stops = 0
    /\ acc = Acc("env", "init", {})
    /\ \E g \in Grosses, t \in Tares, pr \in Prices, sd \in Seeds :
         lab = [op |-> "input", gross |-> g, tare |-> t, price |-> pr, seed |-> sd]

\* ------------------------------------------------------ PRN placeholder text
\* A text is a sequence of pieces. A piece is plain text (b = "text": the string
\* s, or the digit text d), a curly placeholder "{s}" or an angle placeholder
\* "<s>"; c is the letter case the placeholder is written in: "as_is" is the
\* spelling of the key in the code. A piece with b = "escape" is a backslash
\* followed by the character s.
Dot == 0 - 2
Text(s) == [b |-> "text", s |-> s, c |-> "as_is", d |-> << >>]
DigitText(d) == [b |-> "text", s |-> "", c |-> "as_is", d |-> d]
Curly(s, c) == [b |-> "curly", s |-> s, c |-> c, d |-> << >>]
Angle(s, c) == [b |-> "angle", s |-> s, c |-> c, d |-> << >>]
Escape(s) == [b |-> "escape", s |-> s, c |-> "as_is", d |-> << >>]
Quote == [b |-> "quote", s |-> "\"", c |-> "as_is", d |-> << >>]

\* f"{x:.3f}" of a weight held in thousandths, f"{x:.2f}" of an amount in cents
FormatFixed(n, places) ==
    LET unit == IF places = 3 THEN 1000 ELSE 100
        a == IF n < 0 THEN 0 - n ELSE n
        t == Str(a \div unit) \o <<Dot>> \o Zfill(Str(a % unit), places)
    IN  IF n < 0 THEN <<Minus>> \o t ELSE t

\* re.sub(r"\{k\}", v, txt, flags=re.IGNORECASE) matches "{k}" in any letter case;
\* str.replace(k, v) matches the exact spelling only
Matches(piece, b, k) ==
    /\ piece.b = b
    /\ piece.s = k
    /\ b = "angle" => piece.c = "as_is"

RECURSIVE Replace(_, _, _, _)
Replace(txt, b, k, v) ==
    IF txt = << >> THEN << >>
    ELSE (IF Matches(Head(txt), b, k) THEN v ELSE <<Head(txt)>>)
            \o Replace(Tail(txt), b, k, v)

\* for k, v in map.items(): txt = <replace k by v>(txt), one key after the other
RECURSIVE ReplaceAll(_, _, _, _)
ReplaceAll(txt, b, keys, map) ==
    IF keys = << >> THEN txt
    ELSE ReplaceAll(Replace(txt, b, Head(keys), map[Head(keys)]), b, Tail(keys), map)

\* re.sub reads its replacement as a template: a backslash with n stands for a
\* line feed, and a backslash with another letter is an error ("bad escape")
BadRepl(v) == \E i \in 1..Len(v) : v[i].b = "escape" /\ v[i].s # "n"

ReplText(v) ==
    [i \in 1..Len(v) |-> IF v[i].b = "escape" /\ v[i].s = "n" THEN Text("LF") ELSE v[i]]

SubsKeys == <<"product_name", "weight", "price_per_lb", "total_price", "sell_by", "lot", "upc">>
AngleKeys == <<"KillDate", "WtLbs", "PluWgtSer", "SellBy1">>

\* subs of render_prn_template
Subs(content) ==
    [k \in {SubsKeys[i] : i \in 1..Len(SubsKeys)} |->
        CASE k = "product_name" -> content.product_name
          [] k = "weight" -> <<DigitText(FormatFixed(content.weight, 3))>>
          [] k = "price_per_lb" -> <<DigitText(FormatFixed(content.price_per_lb, 2))>>
          [] k = "total_price" -> <<DigitText(FormatFixed(content.total_price \div 1000, 2))>>
          [] k = "sell_by" -> content.sell_by
          [] k = "lot" -> content.lot
          [] OTHER -> <<DigitText(content.upc)>>]

\* angle_map of render_prn_template
AngleMap(subs) ==
    [k \in {AngleKeys[i] : i \in 1..Len(AngleKeys)} |->
        CASE k = "KillDate" -> subs["lot"]
          [] k = "WtLbs" -> subs["weight"]
          [] k = "PluWgtSer" -> subs["upc"]
          [] OTHER -> subs["sell_by"]]

\* render_prn_template(path, content); load is whether load_prn could read path
RenderPrnTemplate(txt, load, content) ==
    IF ~load THEN [none |-> TRUE, raised |-> FALSE, txt |-> << >>]
    ELSE LET subs == Subs(content)
             keys == {SubsKeys[i] : i \in 1..Len(SubsKeys)}
             curly == ReplaceAll(txt, "curly", SubsKeys, [k \in keys |-> ReplText(subs[k])])
         IN  IF \E k \in keys : BadRepl(subs[k])
             THEN [none |-> FALSE, raised |-> TRUE, txt |-> << >>]
             ELSE [none |-> FALSE, raised |-> FALSE,
                   txt |-> ReplaceAll(curly, "angle", AngleKeys, AngleMap(subs))]

\* The .prn texts on the bench
PrnTexts ==
    { <<Text("KILL "), Angle("KillDate", "as_is"), Text(" SELL "), Angle("SellBy1", "as_is")>>,
      <<Angle("WtLbs", "as_is"), Text(" lb "), Angle("PluWgtSer", "as_is"), Angle("WtLbs", "as_is")>>,
      <<Angle("KillDate", "lower"), Angle("Other", "as_is"), Angle("SellBy1", "as_is")>>,
      <<Curly("weight", "as_is"), Curly("weight", "upper"), Curly("unknown_field", "as_is"),
        Text("$"), Curly("total_price", "mixed")>>,
      <<Curly("product_name", "as_is"), Curly("lot", "upper"), Angle("KillDate", "as_is"),
        Curly("sell_by", "as_is"), Curly("upc", "as_is"), Curly("price_per_lb", "as_is")>> }

\* What the operator typed as product name and as lot; the lot field starts empty
Names == { <<Text("Whole Turkey")>>, <<Curly("lot", "as_is")>>,
           <<Text("Turkey 12"), Quote>> }
Lots == { << >>, <<Text("LOT7")>>, <<Angle("SellBy1", "as_is")>>,
          <<Text("A"), Escape("B")>>, <<Text("A"), Escape("n")>> }
SellBy == <<Text("2026-11-10")>>

\* print_action with a .prn template: the content that was built is rendered
RenderPrn ==
    /\ build = "ver"
    /\ lab.op = "content"
    /\ ~lab.out.raised
    /\ \E txt \in PrnTexts, load \in BOOLEAN, name \in Names, lot \in Lots :
         LET content == [product_name |-> name, weight |-> lab.out.weight,
                         price_per_lb |-> lab.price, total_price |-> lab.out.total_price,
                         sell_by |-> SellBy, lot |-> lot, upc |-> lab.out.upc]
         IN  lab' = [op |-> "rendered", txt |-> txt, load |-> load, content |-> content,
                     out |-> RenderPrnTemplate(txt, load, content)]
    /\ UNCHANGED <<build, serial, life, ui>>

NextLabel == BuildContent \/ CallMakeUpc \/ RenderPrn

SpecLabel == InitLabel /\ [][NextLabel]_vars

\* --------------------------------------------------------- JSON templates
\* A template is its list of fields and whether its font is one the PDF library
\* knows; lengths are in hundredths of an inch.
Field(name, x, y) == [name |-> name, x |-> x, y |-> y, height |-> 30]
Barcode(x, y, height) == [name |-> "barcode", x |-> x, y |-> y, height |-> height]
DPI == 203
SizeIn == 200

\* The fields of default_2x2.json as ver.py writes it, the same with the logo of
\* Ver.py and LD_Turkey_Labeler.py, and other lists a template file can hold
FieldLists ==
    { <<Field("product_name", 10, 135), Field("weight", 10, 105),
        Field("price_per_lb", 10, 85), Field("total_price", 10, 65),
        Field("sell_by", 10, 45), Field("lot", 10, 25), Barcode(10, 2, 45)>>,
      <<Field("logo", 10, 160), Field("product_name", 10, 135), Field("weight", 10, 110),
        Field("total_price", 10, 70), Barcode(10, 2, 45)>>,
      <<Barcode(50, 150, 30), Field("total_price", 50, 150), Field("upc", 0, 0),
        Field("plu", 0, 50), Field("total_price", 150, 50)>>,
      << >> }
JsonTemplates == [font_ok : BOOLEAN, fields : FieldLists]

\* Whether reportlab was imported, whether createBarcodeDrawing works, and what
\* becomes of the logo file
VEnvs == [reportlab : BOOLEAN, barcode_ok : BOOLEAN, image : {"ok", "missing", "error"}]

\* The text mapping of generate_label_pdf
PdfText(name, content) ==
    CASE name = "product_name" -> content.product_name
      [] name = "weight" ->
           <<Text("Weight: "), DigitText(FormatFixed(content.weight, 3)), Text(" lb")>>
      [] name = "price_per_lb" ->
           <<DigitText(FormatFixed(content.price_per_lb, 2)), Text(" /lb")>>
      [] name = "total_price" ->
           <<Text("Total: $"), DigitText(FormatFixed(content.total_price \div 1000, 2))>>
      [] name = "sell_by" -> <<Text("Sell by: ")>> \o content.sell_by
      [] name = "lot" -> <<Text("Lot: ")>> \o content.lot
      [] name = "upc" -> <<DigitText(content.upc)>>
      [] OTHER -> << >>

Raise == [raised |-> TRUE, draw |-> << >>]
Draw(kind, name, text) ==
    [raised |-> FALSE, draw |-> <<[kind |-> kind, name |-> name, text |-> text]>>]

\* c.setFont(font, 6) before a placeholder string: ver.py and Ver.py call it, and
\* it raises for a font the library does not know
Placeholder(b, tpl, name, text) ==
    IF b \in {"ver", "Ver"} /\ ~tpl.font_ok THEN Raise ELSE Draw("string", name, text)

\* One turn of the loop over the fields in generate_label_pdf
DrawField(b, tpl, fld, content, env) ==
    IF fld.name = "barcode"
    THEN IF env.barcode_ok
         THEN Draw("barcode", "barcode", <<DigitText(content.upc)>>)
         ELSE Placeholder(b, tpl, "barcode", <<Text("UPC:"), DigitText(content.upc)>>)
    ELSE IF fld.name = "logo" /\ b \in {"Ver", "LD"}
    THEN CASE env.image = "ok" -> Draw("image", "logo", << >>)
           [] env.image = "error" -> Placeholder(b, tpl, "logo", <<Text("[Image error]")>>)
           [] OTHER -> Placeholder(b, tpl, "logo", <<Text("[Image not found]")>>)
    ELSE IF b = "LD" /\ ~tpl.font_ok THEN Raise
    ELSE Draw("string", fld.name, PdfText(fld.name, content))

RECURSIVE DrawFields(_, _, _, _, _, _)
DrawFields(b, tpl, content, env, i, draws) ==
    IF i > Len(tpl.fields) THEN [raised |-> FALSE, draws |-> draws, saved |-> TRUE]
    ELSE LET r == DrawField(b, tpl, tpl.fields[i], content, env)
         IN  IF r.raised THEN [raised |-> TRUE, draws |-> draws, saved |-> FALSE]
             ELSE DrawFields(b, tpl, content, env, i + 1, draws \o r.draw)

\* generate_label_pdf(path, template, content) of build b
GenerateLabelPdf(b, tpl, content, env) ==
    IF ~env.reportlab THEN [raised |-> TRUE, draws |-> << >>, saved |-> FALSE]
    ELSE DrawFields(b, tpl, content, env, 1, << >>)

\* int(round(v_in * dpi)): round() takes an exact half to the even integer
InchesToDots(v) ==
    LET q == (v * DPI) \div 100
        r == (v * DPI) % 100
    IN  IF r < 50 THEN q ELSE IF r > 50 THEN q + 1
        ELSE IF q % 2 = 0 THEN q ELSE q + 1

\* The text mapping of generate_datamax_from_template
DatamaxText(name, content) ==
    CASE name = "product_name" -> content.product_name
      [] name = "weight" -> <<DigitText(FormatFixed(content.weight, 3)), Text(" lb")>>
      [] name = "price_per_lb" ->
           <<DigitText(FormatFixed(content.price_per_lb, 2)), Text(" /lb")>>
      [] name = "total_price" ->
           <<Text("Total: $"), DigitText(FormatFixed(content.total_price \div 1000, 2))>>
      [] name = "sell_by" -> <<Text("Sell by: ")>> \o content.sell_by
      [] name = "lot" -> <<Text("Lot: ")>> \o content.lot
      [] name = "upc" -> <<DigitText(content.upc)>>
      [] OTHER -> << >>

Line(op, x, y, h, text) == [op |-> op, x |-> x, y |-> y, h |-> h, text |-> text]

\* The opcode line of one field: B for the barcode, A for a text
FieldLine(fld, content) ==
    IF fld.name = "barcode"
    THEN Line("B", InchesToDots(fld.x), InchesToDots(fld.y), InchesToDots(fld.height),
              <<DigitText(content.upc)>>)
    ELSE Line("A", InchesToDots(fld.x), InchesToDots(fld.y), 0,
              DatamaxText(fld.name, content))

\* generate_datamax_from_template(template, content, dpi=203): the lines that
\* are joined into the command stream
GenerateDatamaxFromTemplate(tpl, content) ==
    <<Line("N", 0, 0, 0, << >>), Line("q", InchesToDots(SizeIn), 0, 0, << >>),
      Line("Q", InchesToDots(SizeIn), 24, 0, << >>)>>
      \o [i \in 1..Len(tpl.fields) |-> FieldLine(tpl.fields[i], content)]
      \o <<Line("P1", 0, 0, 0, << >>)>>

\* The text of a template file as load_prn reads it: the field names stand in it
\* as quoted strings, not as placeholders
FileText(tpl) == [i \in 1..Len(tpl.fields) |-> Text(tpl.fields[i].name)]

\* One template file and one content given to the renderers of the build
RenderJson ==
    /\ lab.op = "content"
    /\ ~lab.out.raised
    /\ \E tpl \in JsonTemplates, env \in VEnvs, name \in Names, lot \in {<< >>, <<Text("LOT7")>>} :
         LET content == [product_name |-> name, weight |-> lab.out.weight,
                         price_per_lb |-> lab.price, total_price |-> lab.out.total_price,
                         sell_by |-> SellBy, lot |-> lot, upc |-> lab.out.upc]
         IN  lab' = [op |-> "json", tpl |-> tpl, env |-> env, content |-> content,
                     pdf |-> GenerateLabelPdf(build, tpl, content, env),
                     dpl |-> IF build = "ver" THEN GenerateDatamaxFromTemplate(tpl, content)
                             ELSE << >>,
                     prn |-> IF build = "ver" THEN RenderPrnTemplate(FileText(tpl), TRUE, content)
                             ELSE RenderPrnTemplate(<< >>, FALSE, content)]
    /\ UNCHANGED <<build, serial, life, ui>>

RenderGrosses == {500, 5000}
RenderPrices == {1, 299}

InitRender ==
    /\ build \in Builds
    /\ serial = TRUE
    /\ scale_port = "Simulate"
    /\ product = "12345"
    /\ template_var = "default_2x2.json"
    /\ scale = 1
    /\ ninst = 1
    /\ inst = [i \in InstIds |-> IF i = 1 THEN NewInst(scale_port) ELSE NoInst]
    /\ nthr = 0
    /\ thr = [t \in ThreadIds |-> NoThread]
    /\ orch = OrchIdle
    /\ queue = <<>>
    /\ weight_var = 0
    /\ status = "Idle"
    /\ accAge = AgeCap
    /\ stops = 0
    /\ acc = Acc("env", "init", {})
    /\ \E g \in RenderGrosses, pr \in RenderPrices :
         lab = [op |-> "input", gross |-> g, tare |-> 50, price |-> pr, seed |-> 42]

NextRender == BuildContent \/ RenderJson

SpecRender == InitRender /\ [][NextRender]_vars

\* ---------------------------------------------------------------- claims
InLoop(t) == t \in ThreadIds /\ thr[t].pc \in {"loop_test", "sleep", "readline", "accept"}
LoopOf(i) == {t \in ThreadIds : InLoop(t) /\ thr[t].inst = i}

\* C1: at no time are two sampling threads of one ScaleInterface alive in the
\* sampling loop together.
C1_OneSampler == \A i \in InstIds : Cardinality(LoopOf(i)) <= 1

\* C2: while one sampling thread is all there has been, a trigger passes _trigger's
\* test exactly when at least 1.2 s have passed since the last accepted trigger;
\* the test itself calls nothing; a dropped trigger leaves the last-trigger
\* timestamp where it was and sends the thread back to the loop; a passing one is
\* followed by one call of on_print, which restarts the window.
C2_Debounce ==
    nthr = 1 =>
      /\ acc.op = "check" =>
            /\ acc.ok <=> acc.gap >= DEBOUNCE
            /\ acc.cb = 0
            /\ acc.ok => thr[1].pc = "accept"
            /\ ~acc.ok => /\ thr[1].pc = "loop_test"
                          /\ inst[thr[1].inst].age = acc.gap
                          /\ accAge = acc.gap
      /\ acc.op = "accept" =>
            /\ acc.cb = 1
            /\ thr[1].pc = "loop_test"
            /\ inst[thr[1].inst].age = 0
            /\ accAge = 0

\* C2 happens: a trigger 1.3 s after the accepted one passes
C2_Witness == nthr = 1 /\ acc.op = "check" /\ acc.gap = 13 /\ acc.ok

\* a trigger 1.0 s after the accepted one is dropped
C2_Dropped == nthr = 1 /\ acc.op = "check" /\ acc.gap = 10 /\ ~acc.ok

\* A print cycle that failed in rendering or in transport
CycleFailed(c) == c.rfail \/ c.tfail

\* The step that ended was a failure of the consumer: root.after raised inside
\* on_print, or the queued print cycle failed
ConsumerFailed(a) ==
    \/ a.op = "accept" /\ a.failed
    \/ a.op = "job" /\ CycleFailed(a.cyc)

\* C3: a failure of the consumer clears no running flag and ends no sampling
\* thread, the thread that called on_print is back at its loop test, and whatever
\* failed before, a trigger at least 1.2 s after the last accepted one passes
\* _trigger's test and is followed by a call of on_print.
C3_ConsumerFailure ==
    [][/\ ConsumerFailed(acc') =>
            /\ \A i \in InstIds : inst'[i].running = inst[i].running
            /\ \A t \in ThreadIds : InLoop(t) => thr'[t].pc \in {"loop_test", "sleep", "readline", "accept"}
            /\ \A t \in ThreadIds : thr[t].pc = "accept" /\ thr'[t] # thr[t] => thr'[t].pc = "loop_test"
       /\ \A t \in ThreadIds :
            (acc'.op = "check" /\ thr'[t] # thr[t] /\ inst[thr[t].inst].age >= DEBOUNCE)
               => thr'[t].pc = "accept"
       /\ acc'.op = "accept" => acc'.cb = 1]_vars

\* C3 happens: after a print cycle that failed in transport, on_print is called
\* again and root.after raises
C3_Witness ==
    /\ status = "Auto send failed"
    /\ acc.op = "accept" /\ acc.failed
    /\ \E t \in ThreadIds : thr[t].pc = "loop_test" /\ inst[thr[t].inst].running

\* C4: when stop() has returned twice in a row on the current ScaleInterface, the
\* object is Idle (running flag false, thread handle empty) and none of its
\* sampling threads is alive.
C4_StopTwice ==
    (stops = 2 /\ orch.pc \in {"idle", "start_listen"}) =>
       /\ ~inst[scale].running
       /\ inst[scale].thread = 0
       /\ AliveOf(scale) = {}

\* stop() has been called on the object of sampling thread t since t was started:
\* the call is waiting in join, or it has returned and emptied or replaced the
\* thread handle
StopRequested(t) ==
    /\ Alive(t)
    /\ \/ inst[thr[t].inst].thread # t
       \/ orch.pc = "join" /\ thr[t].inst = scale

\* C5: once stop() has been called on its object, a sampling thread that reaches
\* the loop test (its next iteration boundary) leaves the loop and ends, also
\* when start() has been called again in between.
C5_ExitAtBoundary ==
    [][\A t \in ThreadIds :
         (StopRequested(t) /\ thr[t].pc = "loop_test" /\ thr'[t] # thr[t])
            => thr'[t].pc = "dead"]_vars

FailureStatus == {"Auto PDF failed", "Auto send failed", "Auto failed",
                  "Auto skipped (pyserial missing)"}

\* C6: at the end of an automatic print cycle that failed in rendering or in
\* transport, the status names the failure.
C6_FailureReported ==
    (acc.op = "job" /\ CycleFailed(acc.cyc)) => status \in FailureStatus

\* C7 as stated: a step of the sampling thread neither touches UI-owned state nor
\* runs any part of a print cycle, and every call of on_print puts exactly one
\* job on the event queue.
C7_ExactlyOneJob ==
    /\ acc.who = "sampler" => ~acc.ui /\ acc.cyc = NoCycle
    /\ acc.op = "accept" => acc.enq = 1

\* C7, amended: a step of the sampling thread leaves the UI-owned state alone and
\* runs no part of a print cycle; UI-owned state changes and print cycles run only
\* in steps of the orchestrator; only on_print adds to the event queue, one job
\* when root.after returns and none when it raises.
C7_OnlyEnqueues ==
    [][/\ acc'.who = "sampler" => ui' = ui /\ ~acc'.ui /\ acc'.cyc = NoCycle
       /\ (ui' # ui \/ acc'.cyc # NoCycle) => acc'.who = "orch"
       /\ acc'.cyc # NoCycle => acc'.op = "job" /\ Len(queue') = Len(queue) - 1
       /\ Len(queue') > Len(queue) => acc'.op = "accept"
       /\ acc'.op = "accept" =>
            /\ acc'.enq = IF acc'.failed THEN 0 ELSE 1
            /\ Len(queue') = Len(queue) + acc'.enq]_vars

\* C7 happens: the job queued by the sampling thread has run a whole print cycle
\* on the orchestrator, and the sampling thread is in its loop
C7_Witness ==
    /\ acc.who = "orch" /\ acc.op = "job" /\ acc.cyc.stage = "done"
    /\ weight_var \in Weights
    /\ \E t \in ThreadIds : InLoop(t)

\* The step wrote the running flag or the last-trigger timestamp
WroteShared(a) == {"running", "last_trigger"} \cap a.wr # {}

\* C8 as stated: the running flag and the last-trigger timestamp are written by
\* the sampling thread only.
C8_SamplerWritesOnly == WroteShared(acc) => acc.who = "sampler"

\* C8, amended: once a ScaleInterface is constructed, its last-trigger timestamp
\* is written only by the sampling thread, in _trigger, and its running flag only
\* by the orchestrator, in start() and stop(); the sampling thread only reads the
\* flag.
C8_Writers ==
    [][/\ (\E i \in InstIds : inst'[i].age < inst[i].age) =>
            acc'.who = "sampler" /\ acc'.op = "accept" /\ "last_trigger" \in acc'.wr
       /\ "last_trigger" \in acc'.wr => acc'.who = "sampler"
       /\ (\E i \in InstIds : inst'[i].running # inst[i].running) =>
            /\ acc'.who = "orch"
            /\ acc'.op \in {"toggle_listen", "start_listen", "stop"}
            /\ "running" \in acc'.wr
       /\ "running" \in acc'.wr => acc'.who = "orch"
       /\ acc'.who = "sampler" => \A i \in InstIds : inst'[i].running = inst[i].running]_vars

\* C8 happens: stop() on the orchestrator clears the running flag that a live
\* sampling thread of the object reads
C8_Witness ==
    /\ acc.who = "orch" /\ acc.op = "stop" /\ "running" \in acc.wr
    /\ orch.pc = "join"
    /\ AliveOf(scale) # {}

\* read_once met a device error: no pyserial, or a channel that cannot be opened,
\* a read that raises, or a line without a decimal number
DeviceError(a) == ~serial \/ a.dev # "ok"

\* C9 as stated: read_once on a source that is not simulated returns 0 on every
\* device error.
C9_ZeroOnError ==
    (acc.op = "read_once" /\ ~inst[scale].simulate /\ DeviceError(acc)) => acc.res = "zero"

\* C9, amended: read_once on a source that is not simulated returns 0 when the
\* channel cannot be opened, the read raises or the line holds no decimal number,
\* and manual_read shows that 0; without pyserial it raises RuntimeError, which
\* manual_read reports, leaving the weight field as it was.  It never touches a
\* running flag or a sampling thread.
C9_ErrorOutcome ==
    [][(acc'.op = "read_once" /\ ~inst'[scale].simulate) =>
         /\ (serial /\ acc'.dev # "ok") => acc'.res = "zero" /\ weight_var' = 0
         /\ ~serial => acc'.res = "raised" /\ weight_var' = weight_var
         /\ \A i \in InstIds : inst'[i].running = inst[i].running
         /\ thr' = thr]_vars

\* C9 happens: read_once returns 0 for a channel that cannot be opened while the
\* source is Running and its sampling thread is alive
C9_Witness ==
    /\ acc.op = "read_once" /\ acc.dev = "open_fails" /\ acc.res = "zero"
    /\ weight_var = 0
    /\ inst[scale].running /\ AliveOf(scale) # {}

\* C10: read_once does not depend on the Running state or on the debounce: with
\* a simulated source, or pyserial and a device that answers, it returns a
\* sample whatever the running flag and the last-trigger timestamp are; it calls
\* on_print never, queues nothing, and leaves the running flags, the thread
\* handles, the last-trigger timestamps and the sampling threads as they were.
C10_ReadOnceFrame ==
    [][acc'.op = "read_once" =>
         /\ (inst'[scale].simulate \/ (serial /\ acc'.dev = "ok")) =>
               acc'.res \in {"sim", "sample"} /\ weight_var' \in Weights
         /\ acc'.cb = 0 /\ acc'.enq = 0
         /\ queue' = queue
         /\ \A i \in InstIds : /\ inst'[i].running = inst[i].running
                                /\ inst'[i].thread = inst[i].thread
                                /\ inst'[i].age = inst[i].age
         /\ accAge' = accAge
         /\ thr' = thr]_vars

\* C10 happens: read_once returns a sample from a Running source with a live
\* sampling thread, less than 1.2 s after an accepted trigger
C10_Witness ==
    /\ acc.op = "read_once" /\ acc.res \in {"sim", "sample"}
    /\ inst[scale].running /\ AliveOf(scale) # {}
    /\ inst[scale].age < DEBOUNCE

\* C11: no step of the scale code passes the sentinel "Simulate" to serial.Serial:
\* neither the sampling thread nor read_once opens a channel on a ScaleInterface
\* whose port is the sentinel.
C11_SentinelNeverOpened == acc.opened # "Simulate"

\* The events of the kinds ks in a run
Count(run, ks) == Cardinality({i \in 1..Len(run) : run[i][1] \in ks})

Printed == lab.op \in {"manual", "auto"}

\* The run reports a failure after event i: a dialog, or a status naming it
SurfacedAfter(run, i) ==
    \E j \in (i + 1)..Len(run) :
       \/ run[j][1] = "err"
       \/ run[j][1] = "status" /\ run[j][2] \in FailureStatus \cup
                                   {"Auto skipped (no product)", "Auto skipped (no template)"}

\* C12: a print action, manual or automatic, opens the printer port at most once
\* and attempts at most one write; the write happens on the open port and the port
\* is closed right after it, whether the write raised or not; a failed open is
\* followed by no other attempt; and every failed send is followed by a report
\* to the user.
C12_SendOnce ==
    Printed =>
       LET r == lab.run
       IN  /\ Count(r, {"open", "open_raised"}) <= 1
           /\ Count(r, {"write", "write_raised"}) <= 1
           /\ Count(r, {"close"}) = Count(r, {"open"})
           /\ \A i \in 1..Len(r) :
                /\ r[i][1] = "open" =>
                     /\ i + 2 <= Len(r)
                     /\ r[i + 1][1] \in {"write", "write_raised"}
                     /\ r[i + 1][2] = r[i][2]
                     /\ r[i + 2][1] = "close"
                /\ r[i][1] \in {"write", "write_raised"} => i > 1 /\ r[i - 1][1] = "open"
                /\ r[i][1] \in {"open_raised", "write_raised"} => SurfacedAfter(r, i)

\* C12 happens: an automatic cycle whose write to the printer raised
C12_Witness ==
    /\ lab.op = "auto"
    /\ Count(lab.run, {"write_raised"}) = 1
    /\ Count(lab.run, {"close"}) = 1

\* The build, render and transport steps of a run, without the reports
IsStep(e) == e[1] \notin {"err", "info", "status"}
Steps(run) == SelectSeq(run, IsStep)

\* C13: for the same product, template and environment the automatic cycle and
\* the manual print action take the same build, render and transport steps, in
\* the same order and with the same payloads.
C13_SameSteps ==
    Printed =>
       Steps(AutoRun(build, lab.prod, lab.tpl, serial, lab.env))
          = Steps(ManualRun(build, lab.prod, lab.tpl, serial, lab.env))

WorkKinds == {"content", "render", "render_raised", "file",
              "open", "open_raised", "write", "write_raised", "close"}

\* C14: a print cycle, manual or automatic, with no product selected or with a
\* code that has no row produces no content, shows the error once (Select
\* product, Product not found) and ends there: no renderer is called, no file is
\* written, the printer port is not opened, and nothing is tried again.
C14_NoProduct ==
    (Printed /\ lab.prod # "12345") =>
       /\ Count(lab.run, WorkKinds) = 0
       /\ Count(lab.run, {"err"}) = 1
       /\ \E i \in 1..Len(lab.run) :
            lab.run[i] = <<"err", IF lab.prod = "" THEN "Select product"
                                  ELSE "Product not found">>
       /\ Len(lab.run) <= 3

\* C14 happens: an automatic cycle for a product code that has no row
C14_Witness ==
    /\ lab.op = "auto" /\ lab.prod = "99999"
    /\ Count(lab.run, {"err"}) = 1
    /\ Count(lab.run, WorkKinds) = 0

\* No template is selected, or the selected one does not load
TemplateMissing == lab.tpl = "" \/ ~lab.env.load

\* C15: a print cycle, manual or automatic, that has a content but no template, or
\* a template that cannot be loaded, reports an error and neither opens the
\* printer port nor writes to it.
C15_MissingTemplate ==
    (Printed /\ HasContent(lab.prod) /\ TemplateMissing) =>
       /\ Count(lab.run, {"open", "open_raised", "write", "write_raised"}) = 0
       /\ \E i \in 1..Len(lab.run) : SurfacedAfter(lab.run, i)

\* The number a text of digits denotes
RECURSIVE Value(_)
Value(t) == IF t = << >> THEN 0 ELSE 10 * Value(SubSeq(t, 1, Len(t) - 1)) + t[Len(t)]

InRange(n) == n \in 0..99999

\* C16: for a seed and a cents value in 0..99999, make_price_embedded_upc returns
\* 12 digits: a 2, the seed in five digits, the cents in five digits, and the
\* digit c = (10 - (3 * S_odd + S_even) mod 10) mod 10, where S_odd sums the
\* digits at positions 0, 2, .., 10 and S_even those at 1, 3, .., 9; so
\* 3 * S_odd + S_even + c is a multiple of 10, and upc_check_digit of the first 11
\* digits gives c again.
C16_UpcDigits ==
    (lab.op = "upc" /\ InRange(lab.seed) /\ InRange(lab.cents)) =>
       LET code == lab.out.code
           S_odd == code[1] + code[3] + code[5] + code[7] + code[9] + code[11]
           S_even == code[2] + code[4] + code[6] + code[8] + code[10]
       IN  /\ ~lab.out.raised
           /\ Len(code) = 12
           /\ \A i \in 1..12 : code[i] \in 0..9
           /\ code[1] = 2
           /\ Value(SubSeq(code, 2, 6)) = lab.seed
           /\ Value(SubSeq(code, 7, 11)) = lab.cents
           /\ code[12] = (10 - ((3 * S_odd + S_even) % 10)) % 10
           /\ (3 * S_odd + S_even + code[12]) % 10 = 0
           /\ UpcCheckDigit(SubSeq(code, 1, 11)) = [raised |-> FALSE, digit |-> code[12]]

\* C16 happens: seed 42 and 1480 cents give 200042014809
C16_Witness ==
    /\ lab.op = "upc" /\ lab.seed = 42 /\ lab.cents = 1480
    /\ lab.out.code = <<2, 0, 0, 0, 4, 2, 0, 1, 4, 8, 0, 9>>

\* C17: make_price_embedded_upc returns a code of 12 digits for every seed and
\* every cents value, also for a seed of more than five digits and for 100000
\* cents or more, and generate_content always yields such a code.
C17_AlwaysTwelve ==
    (lab.op \in {"upc", "content"} /\ (lab.op = "content" => lab.out.cents >= 0)) =>
       /\ ~lab.out.raised
       /\ Len(IF lab.op = "upc" THEN lab.out.code ELSE lab.out.upc) = 12

Built == lab.op = "content"

\* C18: the net weight of a label content is gross - tare when that is positive
\* and 0 otherwise, so it is never negative; when gross <= tare the net weight,
\* the total price and the cents are 0, whatever the price; and neither the total
\* price nor the cents are negative for a price that is not negative, nor in any
\* content that is returned.
C18_NetWeight ==
    Built =>
       /\ lab.out.weight = (IF lab.gross > lab.tare THEN lab.gross - lab.tare ELSE 0)
       /\ lab.out.weight >= 0
       /\ lab.gross <= lab.tare =>
            /\ lab.out.weight = 0 /\ lab.out.total_price = 0 /\ lab.out.cents = 0
            /\ ~lab.out.raised => Value(SubSeq(lab.out.upc, 7, 11)) = 0
       /\ lab.price >= 0 => lab.out.total_price >= 0 /\ lab.out.cents >= 0
       /\ ~lab.out.raised => lab.out.total_price >= 0 /\ lab.out.cents >= 0

\* C18 happens: a gross weight below the tare, with a price of 2.99
C18_Witness ==
    /\ Built /\ lab.gross = 40 /\ lab.tare = 50 /\ lab.price = 299
    /\ lab.out.weight = 0 /\ lab.out.cents = 0 /\ ~lab.out.raised

\* C19: the total price is net * price rounded to the nearest cent, an exact half
\* cent going up; gross 5.0, tare 0.05 and price 2.99 give net 4.95 and total
\* 14.80; the cents are the total times 100, and the UPC that is built carries
\* them in its digits 7 to 11.
C19_TotalPrice ==
    Built =>
       LET a == lab.out.weight * lab.price
           total == lab.out.total_price
       IN  /\ total % 1000 = 0
           /\ total - a <= 500 /\ a - total < 500
           /\ a % 1000 = 500 => total = a + 500
           /\ lab.out.cents * 1000 = total
           /\ ~lab.out.raised => Value(SubSeq(lab.out.upc, 7, 11)) = lab.out.cents
           /\ (lab.gross = 5000 /\ lab.tare = 50 /\ lab.price = 299) =>
                lab.out.weight = 4950 /\ total = 1480000 /\ lab.out.cents = 1480

\* C19 happens: gross 5.0, tare 0.05, price 2.99
C19_Witness ==
    /\ Built /\ lab.gross = 5000 /\ lab.tare = 50 /\ lab.price = 299
    /\ lab.out.total_price = 1480000 /\ ~lab.out.raised

\* net 0.5 at 0.01 per pound is half a cent, and the total is one cent
C19_HalfCent ==
    /\ Built /\ lab.out.weight = 500 /\ lab.price = 1
    /\ lab.out.total_price = 1000 /\ lab.out.cents = 1

Rendered == lab.op = "rendered" /\ ~lab.out.none /\ ~lab.out.raised

\* The field each alias stands for
AliasField(k) ==
    CASE k = "WtLbs" -> "weight"
      [] k = "KillDate" -> "sell_by"
      [] k = "SellBy1" -> "sell_by"
      [] k = "PluWgtSer" -> "upc"

IsAlias(piece) ==
    /\ piece.b = "angle" /\ piece.c = "as_is"
    /\ piece.s \in {AngleKeys[i] : i \in 1..Len(AngleKeys)}

RECURSIVE Flat(_)
Flat(ss) == IF ss = << >> THEN << >> ELSE Head(ss) \o Flat(Tail(ss))

\* The text with each alias replaced by the value of its field
Aliased(txt, content) ==
    Flat([i \in 1..Len(txt) |->
            IF IsAlias(txt[i]) THEN Subs(content)[AliasField(txt[i].s)] ELSE <<txt[i]>>])

OnlyAliases(txt) == \A i \in 1..Len(txt) : txt[i].b # "curly"

\* C20: in a rendered .prn text made of plain text and angle-bracket aliases, each
\* alias is replaced by the value of the field it stands for: <WtLbs> by the
\* formatted weight, <KillDate> and <SellBy1> by the sell-by string, <PluWgtSer>
\* by the UPC code.
C20_Aliases ==
    (Rendered /\ OnlyAliases(lab.txt)) => lab.out.txt = Aliased(lab.txt, lab.content)

\* In the code <WtLbs>, <SellBy1> and <PluWgtSer> are replaced as stated, for a
\* lot that is plain text; <KillDate> is replaced by the lot.
C20_OtherAliases ==
    (Rendered /\ OnlyAliases(lab.txt) /\ lab.content.lot \in {<< >>, <<Text("LOT7")>>}) =>
       lab.out.txt =
          Flat([i \in 1..Len(lab.txt) |->
                  IF ~IsAlias(lab.txt[i]) THEN <<lab.txt[i]>>
                  ELSE IF lab.txt[i].s = "KillDate" THEN lab.content.lot
                  ELSE Subs(lab.content)[AliasField(lab.txt[i].s)]])

IsMapped(piece) ==
    piece.b = "curly" /\ piece.s \in {SubsKeys[i] : i \in 1..Len(SubsKeys)}

\* The text with each mapped curly placeholder, in any letter case, replaced by
\* the value of its key, each alias by the value the code gives it, and every
\* other piece as it is
Substituted(txt, content) ==
    Flat([i \in 1..Len(txt) |->
            IF IsMapped(txt[i]) THEN Subs(content)[txt[i].s]
            ELSE IF IsAlias(txt[i]) THEN AngleMap(Subs(content))[txt[i].s]
            ELSE <<txt[i]>>])

\* C21: whenever the .prn text could be read, the renderer does not fail, and
\* its result is the text with every occurrence of every mapped {name}
\* placeholder, in any letter case, substituted by the value of that name, every
\* unmapped placeholder left as it is and all other text unchanged.
C21_Placeholders ==
    (lab.op = "rendered" /\ lab.load) =>
       /\ ~lab.out.raised
       /\ lab.out.txt = Substituted(lab.txt, lab.content)

PlainValue(v) == \A i \in 1..Len(v) : v[i].b = "text"

\* For a product name and a lot that are plain text the renderer does what C21
\* states.
C21_PlainValues ==
    (lab.op = "rendered" /\ lab.load
        /\ PlainValue(lab.content.product_name) /\ PlainValue(lab.content.lot)) =>
       /\ ~lab.out.raised
       /\ lab.out.txt = Substituted(lab.txt, lab.content)

\* The formatted total price, as in "Total: $14.80"
TotalString(content) ==
    <<Text("Total: $"), DigitText(FormatFixed(content.total_price \div 1000, 2))>>

HasField(tpl, name) == \E i \in 1..Len(tpl.fields) : tpl.fields[i].name = name

\* All three renderers of ver.py ran on the template and the content, and none
\* of them failed
AllRendered ==
    /\ lab.op = "json" /\ build = "ver"
    /\ ~lab.pdf.raised /\ ~lab.prn.none /\ ~lab.prn.raised

InPdf(text) ==
    \E i \in 1..Len(lab.pdf.draws) :
        lab.pdf.draws[i].kind = "string" /\ lab.pdf.draws[i].text = text

InDpl(text) ==
    \E i \in 1..Len(lab.dpl) : lab.dpl[i].op = "A" /\ lab.dpl[i].text = text

InPrn(text) ==
    \E i \in 1..Len(lab.prn.txt) :
        /\ i + Len(text) - 1 <= Len(lab.prn.txt)
        /\ SubSeq(lab.prn.txt, i, i + Len(text) - 1) = text

\* C22: one template with a total_price field and one content, given to the
\* vector, placeholder and positional command renderers, give the same formatted
\* total-price string ("Total: $14.80" for a total of 14.80) in each of the three
\* outputs.
C22_SameTotal ==
    (AllRendered /\ HasField(lab.tpl, "total_price")) =>
       /\ InPdf(TotalString(lab.content))
       /\ InDpl(TotalString(lab.content))
       /\ InPrn(TotalString(lab.content))

\* The vector and the positional command renderer do carry the same total-price
\* string.
C22_VectorAndCommand ==
    (AllRendered /\ HasField(lab.tpl, "total_price")) =>
       /\ InPdf(TotalString(lab.content))
       /\ InDpl(TotalString(lab.content))
       /\ lab.content.total_price = 1480000 =>
            TotalString(lab.content) = <<Text("Total: $"), DigitText(<<1, 4, Dot, 8, 0>>)>>

\* The opcode lines of the fields: those after the three lines of the head
FieldLines(dpl) == SubSeq(dpl, 4, Len(dpl) - 1)

BothRendered == lab.op = "json" /\ build = "ver" /\ ~lab.pdf.raised

\* C23: for one template and one content the vector renderer and the positional
\* command renderer handle the same fields in template order, and for every
\* field but the barcode the string drawn in the vector document is the string
\* carried by that field's text opcode.
C23_SameFieldText ==
    BothRendered =>
       /\ Len(lab.pdf.draws) = Len(lab.tpl.fields)
       /\ Len(FieldLines(lab.dpl)) = Len(lab.tpl.fields)
       /\ \A i \in 1..Len(lab.tpl.fields) :
             /\ lab.pdf.draws[i].name = lab.tpl.fields[i].name
             /\ lab.tpl.fields[i].name # "barcode" =>
                  /\ FieldLines(lab.dpl)[i].op = "A"
                  /\ lab.pdf.draws[i].text = FieldLines(lab.dpl)[i].text

\* The two renderers agree on every field but the weight.
C23_ExceptWeight ==
    BothRendered =>
       /\ Len(lab.pdf.draws) = Len(lab.tpl.fields)
       /\ Len(FieldLines(lab.dpl)) = Len(lab.tpl.fields)
       /\ \A i \in 1..Len(lab.tpl.fields) :
             /\ lab.pdf.draws[i].name = lab.tpl.fields[i].name
             /\ lab.tpl.fields[i].name \notin {"barcode", "weight"} =>
                  /\ FieldLines(lab.dpl)[i].op = "A"
                  /\ lab.pdf.draws[i].text = FieldLines(lab.dpl)[i].text
             /\ lab.tpl.fields[i].name = "weight" =>
                  lab.pdf.draws[i].text = <<Text("Weight: ")>> \o FieldLines(lab.dpl)[i].text

HasQuote(text) == \E i \in 1..Len(text) : text[i] = Quote

DplRendered == lab.op = "json" /\ build = "ver"

\* The command stream opens with the page size and ends with the print command,
\* with one opcode line per template field between them, in field order: B for
\* the barcode, A for any other field
OneLinePerField ==
    /\ Len(lab.dpl) = Len(lab.tpl.fields) + 4
    /\ lab.dpl[1].op = "N" /\ lab.dpl[2].op = "q" /\ lab.dpl[3].op = "Q"
    /\ lab.dpl[Len(lab.dpl)].op = "P1"
    /\ \A i \in 1..Len(lab.tpl.fields) :
          LET fld == lab.tpl.fields[i]
              line == FieldLines(lab.dpl)[i]
          IN  /\ line.op = (IF fld.name = "barcode" THEN "B" ELSE "A")
              /\ line.x = InchesToDots(fld.x) /\ line.y = InchesToDots(fld.y)

\* C24: the positional command renderer emits, between the page-size declaration
\* and the print command, one opcode line per template field in field order, a
\* barcode opcode for "barcode" and a text opcode for any other field, and no
\* text opcode carries a double quote inside its quoted value.
C24_OpcodeLines ==
    DplRendered =>
       /\ OneLinePerField
       /\ \A i \in 1..Len(lab.dpl) : lab.dpl[i].op = "A" => ~HasQuote(lab.dpl[i].text)

\* The lines are as C24 states; a double quote of the product name is in the
\* opcode of a product_name field as it was typed.
C24_Lines ==
    DplRendered =>
       /\ OneLinePerField
       /\ \A i \in 1..Len(lab.dpl) :
            (lab.dpl[i].op = "A" /\ HasQuote(lab.dpl[i].text)) =>
               lab.dpl[i].text = lab.content.product_name

\* The barcode or the image capability is absent, or fails on a field of the
\* template
Degraded ==
    /\ lab.op = "json"
    /\ \/ ~lab.env.reportlab
       \/ ~lab.env.barcode_ok /\ HasField(lab.tpl, "barcode")
       \/ lab.env.image # "ok" /\ HasField(lab.tpl, "logo")

\* Every field of the template is drawn, in order; a barcode that failed as the
\* text "UPC:<code>", an image that failed as a placeholder string
DrawnWithPlaceholders ==
    /\ Len(lab.pdf.draws) = Len(lab.tpl.fields)
    /\ \A i \in 1..Len(lab.tpl.fields) :
          LET fld == lab.tpl.fields[i]
              draw == lab.pdf.draws[i]
          IN  /\ draw.name = fld.name
              /\ (fld.name = "barcode" /\ ~lab.env.barcode_ok) =>
                   /\ draw.kind = "string"
                   /\ draw.text = <<Text("UPC:"), DigitText(lab.content.upc)>>
              /\ (fld.name = "logo" /\ lab.env.image # "ok") =>
                   draw.kind = "string" /\ draw.text # << >>
              /\ fld.name \notin {"barcode", "logo"} =>
                   draw.kind = "string" /\ draw.text = PdfText(fld.name, lab.content)

\* C25: when the barcode or image capability is absent or fails, the vector
\* renderer does not fail the document: it draws a textual placeholder for the
\* affected field, draws every other field and completes the document.
C25_Degrades ==
    Degraded =>
       /\ ~lab.pdf.raised /\ lab.pdf.saved
       /\ DrawnWithPlaceholders

\* With reportlab imported and a font the library knows, Ver.py and
\* LD_Turkey_Labeler.py degrade as C25 states, and so does ver.py for a template
\* without a logo.
C25_WithLibrary ==
    (Degraded /\ lab.env.reportlab /\ lab.tpl.font_ok
        /\ (build = "ver" => ~HasField(lab.tpl, "logo"))) =>
       /\ ~lab.pdf.raised /\ lab.pdf.saved
       /\ DrawnWithPlaceholders

\* The print action of a build that transmits ran on the JSON template
DualEmission ==
    /\ lab.op = "manual" /\ build \in {"ver", "Ver"}
    /\ lab.tpl = "default_2x2.json" /\ HasContent(lab.prod)

\* The vector document is written before the port is opened, and the port is
\* opened only if the template loaded and the document was generated
PdfBeforeSend(run, env) ==
    /\ \A j \in 1..Len(run) :
          run[j][1] \in {"open", "open_raised", "write", "write_raised"} =>
             \E i \in 1..(j - 1) : run[i] = <<"file", "pdf">>
    /\ (~env.load \/ ~env.pdf) =>
          Count(run, {"open", "open_raised", "write", "write_raised"}) = 0

\* C30: in the dual-emission print action for a JSON template the vector
\* document is written before anything is transmitted, and the command stream is
\* transmitted only if the template loaded and the vector document was
\* generated; on either failure nothing is sent.
C30_PdfThenSend == DualEmission => PdfBeforeSend(lab.run, lab.env)

\* print_action of ver.py does what C30 states.
C30_PrintAction == (DualEmission /\ build = "ver") => PdfBeforeSend(lab.run, lab.env)

\* C26: in every reachable state a Weight Source whose running flag is true has
\* a live sampling thread.
C26_RunningHasThread ==
    \A i \in 1..ninst : inst[i].running => AliveOf(i) # {}

\* stop() has returned on object i and start() was not called on it since
StopReturned(i) ==
    \/ i = scale /\ stops >= 1
    \/ i # scale /\ i <= ninst

\* Thread t calls on_print in this step
Calls(t) == thr[t].pc = "accept" /\ thr'[t].pc # "accept"

\* C27: once stop() has returned, the callback of that Weight Source is not
\* invoked again until start() is called again, also when the orchestrator has
\* replaced the object by a new one.
C27_NoCallbackAfterStop ==
    [][\A t \in ThreadIds : Calls(t) => ~StopReturned(thr[t].inst)]_vars

\* C28: any two callback invocations of one object are at least 1.2 s apart,
\* whichever threads make them: a thread calls on_print only when the last call
\* for its object lies 1.2 s back or more.
C28_CallbacksApart ==
    [][\A t \in ThreadIds : Calls(t) => inst[thr[t].inst].age >= DEBOUNCE]_vars

\* C29: read_once hands back a synthesized weight only when the current port of
\* the object is "Simulate" or there is no serial capability.
C29_SimulatedOnlyOnSentinel ==
    (acc.op = "read_once" /\ acc.res = "sim") =>
       (inst[scale].port = "Simulate" \/ ~serial)
====
